---- MODULE Spec2Model ----
(***************************************************************************)
(* Model of the retrieval-and-grounding pipeline of rag-chat-bot:          *)
(* RAGPipeline.query (rag_pipeline.py), its relevance gate, the prompt     *)
(* template (config.py), the answer post-processing, and the two callers   *)
(* of query: the Gradio callback get_ai_response (app.py) and the          *)
(* evaluation harness run_evaluation (evaluate.py).                        *)
(*                                                                         *)
(* Text is a sequence of tokens.  A token is one character (" ", "\n",     *)
(* "a") or an indivisible piece of fixed text ("Question:", "Q:", "User:", *)
(* "Answer:", a sentence of the template).  No marker of the answer        *)
(* post-processing is a substring of another, so matching on tokens agrees *)
(* with matching on characters.                                            *)
(*                                                                         *)
(* Distances are integers: the distance times 100 (0.7 is 70).             *)
(***************************************************************************)
EXTENDS Integers, Sequences, FiniteSets, TLC

VARIABLES
    vectorstore,                \* RAGPipeline.vectorstore
    embeddings_model,           \* RAGPipeline.embeddings_model
    llm,                        \* RAGPipeline.llm
    qa_chain,                   \* RAGPipeline.qa_chain
    pc,                         \* position of the query in flight
    caller,                     \* who called query: "ui" or "eval"
    user_query,                 \* query's argument
    retrieved_docs_with_scores, \* query's local: the search result
    top_doc,                    \* query's local
    top_score,                  \* query's local
    minimal_prompt,             \* query's local: the rendered prompt
    answer,                     \* query's local: what llm.invoke returned
    result,                     \* what query returned
    ui_return,                  \* what get_ai_response returned
    searchCalls,                \* calls of similarity_search_with_score in this query
    llmCalls,                   \* calls of llm.invoke in this query
    raised,                     \* where an exception was raised in this query
    gate,                       \* the branch the gate took in this query
    gateCalls,                  \* evaluations of the gate in this query
    queries_done,               \* queries completed on this pipeline
    failures,                   \* of these, the ones that ended in the except branch
    clean_pc,                   \* answer post-processing alone: position
    clean_prompt,               \* answer post-processing alone: the prompt
    clean_answer,               \* answer post-processing alone: the model's return value
    clean_once,                 \* its post-processed text
    clean_twice,                \* the post-processed text, post-processed again
    rag_pipeline,               \* app.py's global: "unbound", "bound" or "failed"
    disk,                       \* what FAISS_INDEX_PATH holds
    ingest_pc,                  \* position of ingest_data.main
    index_seen,                 \* what the constructor found at FAISS_INDEX_PATH
    threads,                    \* the locals of each concurrent call of query
    documents,                  \* split_documents_into_chunks: its argument
    chunks,                     \* split_documents_into_chunks: its return value
    chunk_pc                    \* position of the chunking

queryVars == <<vectorstore, embeddings_model, llm, qa_chain, pc, caller, user_query,
               retrieved_docs_with_scores, top_doc, top_score, minimal_prompt, answer,
               result, ui_return, searchCalls, llmCalls, raised, gate, gateCalls,
               queries_done, failures>>

cleanVars == <<clean_pc, clean_prompt, clean_answer, clean_once, clean_twice>>

indexVars == <<rag_pipeline, disk, ingest_pc, index_seen>>

threadVars == <<threads>>

chunkVars == <<documents, chunks, chunk_pc>>

\* what a step of query leaves alone
notQueryVars == <<cleanVars, indexVars, threadVars, chunkVars>>

\* what the answer post-processing alone leaves alone
notCleanVars == <<queryVars, indexVars, threadVars, chunkVars>>

vars == <<queryVars, cleanVars, indexVars, threadVars, chunkVars>>

None == "None"

(***************************************************************************)
(* Bounds                                                                  *)
(***************************************************************************)
\* queries made one after the other on the same pipeline
MaxQueries == 2
\* runs of ingest_data.main
MaxIngestRuns == 2
\* longest text the model generates after the prompt, in tokens
MaxSuffixLen == 3

(***************************************************************************)
(* config.py                                                               *)
(***************************************************************************)
\* 0.7, times 100
RELEVANCE_THRESHOLD_L2 == 70

\* the sentence the template tells the model to answer with
TEMPLATE_REFUSAL ==
    "I'm sorry, but I don't have enough information to answer that based on the provided knowledge base."

\* the template up to the quoted sentence, and from it to "Context:"
TEMPLATE_HEAD == "You are a helpful assistant. [...] you MUST respond with: "
TEMPLATE_TAIL == "DO NOT invent information [...] Context:"

PROMPT_TEMPLATE ==
    <<TEMPLATE_HEAD, TEMPLATE_REFUSAL, TEMPLATE_TAIL, "\n", "{context}", "\n", "\n",
      "Question:", " ", "{question}", "\n", "\n", "Answer:">>

\* PROMPT_TEMPLATE.format(context=context, question=question)
RECURSIVE Format(_, _, _)
Format(template, context, question) ==
    IF template = <<>> THEN <<>>
    ELSE LET piece == IF Head(template) = "{context}" THEN context
                      ELSE IF Head(template) = "{question}" THEN question
                      ELSE <<Head(template)>>
         IN  piece \o Format(Tail(template), context, question)

(***************************************************************************)
(* str methods                                                             *)
(***************************************************************************)
IsWhitespace(c) == c \in {" ", "\n"}

RECURSIVE LStrip(_)
LStrip(s) ==
    IF s = <<>> THEN s
    ELSE IF IsWhitespace(Head(s)) THEN LStrip(Tail(s)) ELSE s

RECURSIVE RStrip(_)
RStrip(s) ==
    IF s = <<>> THEN s
    ELSE IF IsWhitespace(s[Len(s)]) THEN RStrip(SubSeq(s, 1, Len(s) - 1)) ELSE s

\* s.strip()
Strip(s) == RStrip(LStrip(s))

OccursAt(s, m, i) ==
    /\ i + Len(m) - 1 <= Len(s)
    /\ SubSeq(s, i, i + Len(m) - 1) = m

\* m in s
Contains(s, m) == \E i \in 1..Len(s) : OccursAt(s, m, i)

FirstIndex(s, m) ==
    CHOOSE i \in 1..Len(s) : OccursAt(s, m, i) /\ \A j \in 1..(i - 1) : ~OccursAt(s, m, j)

\* s.split(m)[0]
SplitHead(s, m) == IF Contains(s, m) THEN SubSeq(s, 1, FirstIndex(s, m) - 1) ELSE s

\* s[n:]
SliceFrom(s, n) == SubSeq(s, n + 1, Len(s))

(***************************************************************************)
(* Values of the collaborators                                             *)
(***************************************************************************)
\* chunks of the index: Document(page_content, metadata)
Docs == { [page_content |-> <<"a">>, chunk_id |-> 0],
          [page_content |-> <<"a", " ", "a">>, chunk_id |-> 1] }

NoDoc == [page_content |-> <<>>, chunk_id |-> -1]

\* a score is a real number (val), a float that is not finite, or not a real at all
Real(v) == [kind |-> "real", val |-> v]
NaN == [kind |-> "nan", val |-> 0]
PosInf == [kind |-> "inf", val |-> 0]
NegInf == [kind |-> "neginf", val |-> 0]
NoneScore == [kind |-> "none", val |-> 0]
StrScore == [kind |-> "str", val |-> 0]
ComplexScore == [kind |-> "complex", val |-> 0]

Scores == { Real(0), Real(12), Real(70), Real(71), Real(91),
            NaN, PosInf, NegInf, NoneScore, StrScore, ComplexScore }

NoScore == [kind |-> "unset", val |-> 0]

\* an entry of the search result: a (doc, score) pair, or a bare doc
Pair(doc, score) == [is_pair |-> TRUE, doc |-> doc, score |-> score]
Bare(doc) == [is_pair |-> FALSE, doc |-> doc, score |-> NoScore]

\* what similarity_search_with_score(user_query, k=1) may do: raise, or return a
\* list of at most one entry
SearchResponses ==
    { [raises |-> TRUE, results |-> <<>>], [raises |-> FALSE, results |-> <<>>] }
    \cup { [raises |-> FALSE, results |-> <<Pair(d, s)>>] : d \in Docs, s \in Scores }
    \cup { [raises |-> FALSE, results |-> <<Bare(d)>>] : d \in Docs }

\* the questions callers ask
Questions == { <<>>, <<" ", "\n">>, <<"a">> }

\* an element of a list the generation model returns
DictWithText(t) ==
    [kind |-> "dict", has_generated_text |-> TRUE, text_is_str |-> TRUE, text |-> t]
DictTextNotStr ==
    [kind |-> "dict", has_generated_text |-> TRUE, text_is_str |-> FALSE, text |-> <<>>]
DictWithoutText ==
    [kind |-> "dict", has_generated_text |-> FALSE, text_is_str |-> FALSE, text |-> <<>>]
StrElement(t) ==
    [kind |-> "str", has_generated_text |-> FALSE, text_is_str |-> TRUE, text |-> t]

\* what llm.invoke returns: a string or a list
StrAnswer(t) == [shape |-> "str", text |-> t, items |-> <<>>]
ListAnswer(items) == [shape |-> "list", text |-> <<>>, items |-> items]

NoAnswer == [shape |-> "unset", text |-> <<>>, items |-> <<>>]

\* the return values of the generation model that carry text: the text alone or
\* after an echo of the prompt, as a string, as generated_text, or as a list of strings
TextAnswers(prompt, t) ==
    { StrAnswer(t), StrAnswer(prompt \o t),
      ListAnswer(<<DictWithText(t)>>), ListAnswer(<<DictWithText(prompt \o t)>>),
      ListAnswer(<<StrElement(t)>>) }

\* texts the generation model continues the prompt with
Generations ==
    { <<" ", "a">>,
      <<" ", "a", "\n", "Question:", " ", "a">>,
      <<"\n", "Q:", " ", "a">>,
      <<" ", TEMPLATE_REFUSAL>> }

\* what llm.invoke(minimal_prompt) may do: raise, or return one of the above
LlmResponses(prompt) ==
    { [raises |-> TRUE, value |-> NoAnswer] }
    \cup { [raises |-> FALSE, value |-> v] :
             v \in (UNION { TextAnswers(prompt, t) : t \in Generations })
                   \cup { ListAnswer(<<>>), ListAnswer(<<DictWithoutText>>),
                          ListAnswer(<<DictTextNotStr>>) } }

(***************************************************************************)
(* RAGPipeline.query: the relevance gate                                   *)
(***************************************************************************)
\* isinstance(top_score, numbers.Number)
IsNumber(score) == score.kind \in {"real", "nan", "inf", "neginf", "complex"}

\* float(top_score) raises TypeError
FloatRaises(score) == score.kind = "complex"

\* the comparison of line 126 turned round, as for a similarity score
ExceedsThresholdAsSimilarity(score) ==
    CASE score.kind = "real" -> score.val < RELEVANCE_THRESHOLD_L2
      [] score.kind = "inf" -> FALSE
      [] score.kind = "neginf" -> TRUE
      [] score.kind = "nan" -> FALSE
      [] OTHER -> FALSE

\* float(top_score) > RELEVANCE_THRESHOLD_L2, on IEEE floats: every comparison
\* with NaN is false
ExceedsThreshold(score) ==
    CASE score.kind = "real" -> score.val > RELEVANCE_THRESHOLD_L2
      [] score.kind = "inf" -> TRUE
      [] score.kind = "neginf" -> FALSE
      [] score.kind = "nan" -> FALSE
      [] OTHER -> FALSE

\* not retrieved_docs_with_scores
NoResults(retrieved) == retrieved = <<>>

\* the branch lines 116-128 take on the search result
GateBranch(retrieved) ==
    IF NoResults(retrieved) THEN "reject_empty"
    ELSE IF ~retrieved[1].is_pair THEN "raise_unpack"
    ELSE IF ~IsNumber(retrieved[1].score) THEN "reject_not_number"
    ELSE IF FloatRaises(retrieved[1].score) THEN "raise_float"
    ELSE IF ExceedsThreshold(retrieved[1].score) THEN "reject_threshold"
    ELSE "admit"

(***************************************************************************)
(* RAGPipeline.query: the results                                          *)
(***************************************************************************)
\* the result with the sources left out
QueryResultWithoutChunks(answer_text, used_chunks) ==
    [answer |-> answer_text, used_chunks |-> <<>>]

QueryResult(answer_text, used_chunks) ==
    [answer |-> answer_text, used_chunks |-> used_chunks]

NoResult == QueryResult(<<>>, <<>>)

NOT_INITIALIZED == "RAG Pipeline components not initialized."

CANNED_NO_RESULTS ==
    "I'm sorry, but I don't have enough information to answer that based on the provided knowledge base."

\* a copy of the sentence that has drifted from the template's
CANNED_NOT_NUMBER_DRIFTED ==
    "I'm sorry, but I don't have enough information to answer that based on the knowledge base."

CANNED_NOT_NUMBER ==
    "I'm sorry, but I don't have enough information to answer that based on the provided knowledge base."

CANNED_ABOVE_THRESHOLD ==
    "I'm sorry, but I don't have enough information to answer that based on the provided knowledge base."

ERROR_PREFIX == "An error occurred during query: "

\* the except branch returning the bare message
ErrorResultNoPrefix(e) == QueryResult(<<e>>, <<>>)

\* except Exception as e: return (f"An error occurred during query: {e}", [])
ErrorResult(e) == QueryResult(<<ERROR_PREFIX, e>>, <<>>)

\* the result of a gate branch that returns
GateResult(branch) ==
    CASE branch = "reject_empty" -> QueryResult(<<CANNED_NO_RESULTS>>, <<>>)
      [] branch = "reject_not_number" -> QueryResult(<<CANNED_NOT_NUMBER>>, <<>>)
      [] branch = "reject_threshold" -> QueryResult(<<CANNED_ABOVE_THRESHOLD>>, <<>>)
      [] branch = "raise_unpack" -> ErrorResult("not enough values to unpack")
      [] branch = "raise_float" -> ErrorResult("float() argument must be a string or a real number")
      [] OTHER -> NoResult

(***************************************************************************)
(* RAGPipeline.query: the answer post-processing                           *)
(***************************************************************************)
\* str(x) of a value that is no string
ReprOf(x) == IF x = <<>> THEN <<"[]">> ELSE <<"{...}">>

\* lines 135-143: the text taken from the model's return value; slicing a
\* generated_text that is no string raises
ExtractText(ans, prompt) ==
    IF ans.shape = "list" /\ Len(ans.items) > 0
    THEN LET first == ans.items[1] IN
         IF first.kind = "dict" /\ first.has_generated_text
         THEN IF first.text_is_str
              THEN [raises |-> FALSE, text |-> Strip(SliceFrom(first.text, Len(prompt)))]
              ELSE [raises |-> TRUE, text |-> <<>>]
         ELSE IF first.kind = "str"
              THEN [raises |-> FALSE, text |-> Strip(first.text)]
              ELSE [raises |-> FALSE, text |-> ReprOf(first)]
    ELSE IF ans.shape = "str"
         THEN [raises |-> FALSE, text |-> Strip(ans.text)]
         ELSE [raises |-> FALSE, text |-> ReprOf(ans.items)]

\* the markers of line 145, in the order of the loop
Stops == << <<"\n", "Question:">>, <<"\n", "Q:">>, <<"\n", "User:">> >>

\* one iteration of lines 145-147
CutAtStop(answer_text, stop) ==
    IF Contains(answer_text, stop) THEN Strip(SplitHead(answer_text, stop)) ELSE answer_text

\* lines 145-147, from the i-th marker on
RECURSIVE CutAtStops(_, _)
CutAtStops(answer_text, i) ==
    IF i > Len(Stops) THEN answer_text
    ELSE CutAtStops(CutAtStop(answer_text, Stops[i]), i + 1)

\* lines 135-147
Clean(ans, prompt) ==
    LET x == ExtractText(ans, prompt) IN
    [raises |-> x.raises, text |-> IF x.raises THEN <<>> ELSE CutAtStops(x.text, 1)]

(***************************************************************************)
(* The callers of query                                                    *)
(***************************************************************************)
\* the test of line 20 without strip()
IsBlankNoStrip(q) == q = <<>>

\* not user_query.strip()
IsBlank(q) == Strip(q) = <<>>

PLEASE_ENTER == "<i>Please enter a question.</i>"

UiReturn(answer_text, sources_text) ==
    [answer |-> answer_text, sources_text |-> sources_text]

NoUiReturn == UiReturn(<<>>, "unset")

\* get_ai_response, from the return of query on
UiResponse(res) ==
    UiReturn(res.answer, IF res.used_chunks # <<>> THEN "**Sources Used:**"
                         ELSE "_No specific sources were found_")

(***************************************************************************)
(* The pipeline after construction                                         *)
(***************************************************************************)
\* the truth value of a field
Truthy(field) == field # None

PipelineInit ==
    /\ vectorstore = "FAISS"
    /\ embeddings_model = "HuggingFaceEmbeddings"
    /\ llm = "HuggingFacePipeline"
    /\ qa_chain = None

QueryInit ==
    /\ PipelineInit
    /\ pc = "Idle"
    /\ caller = "none"
    /\ user_query = <<>>
    /\ retrieved_docs_with_scores = <<>>
    /\ top_doc = NoDoc
    /\ top_score = NoScore
    /\ minimal_prompt = <<>>
    /\ answer = NoAnswer
    /\ result = NoResult
    /\ ui_return = NoUiReturn
    /\ searchCalls = 0
    /\ llmCalls = 0
    /\ raised = "none"
    /\ gate = "none"
    /\ gateCalls = 0
    /\ queries_done = 0
    /\ failures = 0

CleanOff ==
    /\ clean_pc = "off"
    /\ clean_prompt = <<>>
    /\ clean_answer = NoAnswer
    /\ clean_once = <<>>
    /\ clean_twice = <<>>

\* the index on disk: the directory, and the versions of its two files
\* (0: the file is absent; n: the file the n-th ingestion run wrote)
Disk(dir, faiss, pkl) == [dir |-> dir, faiss |-> faiss, pkl |-> pkl]

NoDisk == Disk(FALSE, 0, 0)

\* the pipeline of app.py line 12 is constructed from the index of a finished ingestion
IndexOff ==
    /\ rag_pipeline = "bound"
    /\ disk = Disk(TRUE, 1, 1)
    /\ ingest_pc = [at |-> "off", run |-> 1]
    /\ index_seen = Disk(TRUE, 1, 1)

ThreadsOff == threads = <<>>

ChunksOff ==
    /\ documents = <<>>
    /\ chunks = <<>>
    /\ chunk_pc = "off"

Init == QueryInit /\ CleanOff /\ IndexOff /\ ThreadsOff /\ ChunksOff

(***************************************************************************)
(* RAGPipeline.query, step by step                                         *)
(***************************************************************************)
\* a failed generation is tried again instead of being reported
ReturnOrRetry(res, where) ==
    IF where = "llm"
    THEN /\ pc' = "Generating"
         /\ UNCHANGED <<result, raised>>
    ELSE /\ result' = res
         /\ raised' = where
         /\ pc' = "Done"

\* query returns res; where tells whether it returns from the except branch
ReturnFromQuery(res, where) ==
    /\ result' = res
    /\ raised' = where
    /\ pc' = "Done"

\* the call of query: the locals of the new call, and lines 108-112
EnterQuery(q, who) ==
    /\ caller' = who
    /\ user_query' = q
    /\ retrieved_docs_with_scores' = <<>>
    /\ top_doc' = NoDoc
    /\ top_score' = NoScore
    /\ minimal_prompt' = <<>>
    /\ answer' = NoAnswer
    /\ ui_return' = NoUiReturn
    /\ searchCalls' = 0
    /\ llmCalls' = 0
    /\ gate' = "none"
    /\ gateCalls' = 0
    /\ IF ~(Truthy(vectorstore) /\ Truthy(llm))
       THEN ReturnFromQuery(QueryResult(<<NOT_INITIALIZED>>, <<>>), "none")
       ELSE /\ result' = NoResult
            /\ raised' = "none"
            /\ pc' = "Retrieving"
    /\ UNCHANGED <<vectorstore, embeddings_model, llm, qa_chain, queries_done, failures>>

\* app.py, get_ai_response up to the call of query
GetAiResponse(q) ==
    /\ pc = "Idle"
    /\ queries_done < MaxQueries
    /\ IF IsBlank(q)
       THEN /\ caller' = "ui"
            /\ user_query' = q
            /\ retrieved_docs_with_scores' = <<>>
            /\ top_doc' = NoDoc
            /\ top_score' = NoScore
            /\ minimal_prompt' = <<>>
            /\ answer' = NoAnswer
            /\ result' = NoResult
            /\ ui_return' = UiReturn(<<PLEASE_ENTER>>, "")
            /\ searchCalls' = 0
            /\ llmCalls' = 0
            /\ raised' = "none"
            /\ gate' = "none"
            /\ gateCalls' = 0
            /\ pc' = "Idle"
            /\ UNCHANGED <<vectorstore, embeddings_model, llm, qa_chain, queries_done,
                           failures>>
       ELSE EnterQuery(q, "ui")
    /\ UNCHANGED notQueryVars

\* evaluate.py, run_evaluation: one row of the evaluation data
RunEvaluationRow(q) ==
    /\ pc = "Idle"
    /\ queries_done < MaxQueries
    /\ EnterQuery(q, "eval")
    /\ UNCHANGED notQueryVars

\* line 115: the one top-1 search
Retrieve(resp) ==
    /\ pc = "Retrieving"
    /\ searchCalls' = searchCalls + 1
    /\ IF resp.raises
       THEN /\ ReturnFromQuery(ErrorResult("search failed"), "search")
            /\ UNCHANGED retrieved_docs_with_scores
       ELSE /\ retrieved_docs_with_scores' = resp.results
            /\ pc' = "Gating"
            /\ UNCHANGED <<result, raised>>
    /\ UNCHANGED <<vectorstore, embeddings_model, llm, qa_chain, caller, user_query,
                   top_doc, top_score, minimal_prompt, answer, ui_return, llmCalls, gate,
                   gateCalls,
                   queries_done, failures>>
    /\ UNCHANGED notQueryVars

\* the top chunk goes to the prompt without a look at its score
GateSkipped ==
    /\ pc = "Gating"
    /\ IF NoResults(retrieved_docs_with_scores)
       THEN /\ result' = QueryResult(<<CANNED_NO_RESULTS>>, <<>>)
            /\ pc' = "Done"
            /\ UNCHANGED <<top_doc, top_score>>
       ELSE /\ top_doc' = retrieved_docs_with_scores[1].doc
            /\ top_score' = retrieved_docs_with_scores[1].score
            /\ pc' = "Generating"
            /\ UNCHANGED result
    /\ UNCHANGED <<vectorstore, embeddings_model, llm, qa_chain, caller, user_query,
                   retrieved_docs_with_scores, minimal_prompt, answer, ui_return,
                   searchCalls, llmCalls, raised, gate, gateCalls, queries_done, failures>>
    /\ UNCHANGED notQueryVars

\* lines 116-128: the gate on the first entry of the search result
Gate ==
    /\ pc = "Gating"
    /\ LET branch == GateBranch(retrieved_docs_with_scores) IN
       /\ gate' = branch
       /\ gateCalls' = gateCalls + 1
       /\ IF branch = "reject_empty"
          THEN UNCHANGED <<top_doc, top_score>>
          ELSE IF branch = "raise_unpack"
               THEN UNCHANGED <<top_doc, top_score>>
               ELSE /\ top_doc' = retrieved_docs_with_scores[1].doc
                    /\ top_score' = retrieved_docs_with_scores[1].score
       /\ IF branch = "admit"
          THEN /\ pc' = "Generating"
               /\ UNCHANGED <<result, raised>>
          ELSE ReturnFromQuery(GateResult(branch),
                               IF branch \in {"raise_unpack", "raise_float"}
                               THEN "gate" ELSE "none")
    /\ UNCHANGED <<vectorstore, embeddings_model, llm, qa_chain, caller, user_query,
                   retrieved_docs_with_scores, minimal_prompt, answer, ui_return,
                   searchCalls, llmCalls, queries_done, failures>>
    /\ UNCHANGED notQueryVars

\* lines 130-133: the prompt is rendered and the generation model invoked
Generate ==
    /\ pc = "Generating"
    /\ LET prompt == Format(PROMPT_TEMPLATE, top_doc.page_content, user_query) IN
       /\ minimal_prompt' = prompt
       /\ llmCalls' = llmCalls + 1
       /\ \E resp \in LlmResponses(prompt) :
            IF resp.raises
            THEN /\ ReturnFromQuery(ErrorResult("generation failed"), "llm")
                 /\ UNCHANGED answer
            ELSE /\ answer' = resp.value
                 /\ pc' = "Extracting"
                 /\ UNCHANGED <<result, raised>>
    /\ UNCHANGED <<vectorstore, embeddings_model, llm, qa_chain, caller, user_query,
                   retrieved_docs_with_scores, top_doc, top_score, ui_return, searchCalls,
                   gate, gateCalls, queries_done, failures>>
    /\ UNCHANGED notQueryVars

\* lines 134-149: the answer is taken from the model's return value
Extract ==
    /\ pc = "Extracting"
    /\ LET cleaned == Clean(answer, minimal_prompt) IN
       IF cleaned.raises
       THEN ReturnFromQuery(ErrorResult("object is not subscriptable"), "extract")
       ELSE ReturnFromQuery(QueryResult(cleaned.text, <<top_doc>>), "none")
    /\ UNCHANGED <<vectorstore, embeddings_model, llm, qa_chain, caller, user_query,
                   retrieved_docs_with_scores, top_doc, top_score, minimal_prompt, answer,
                   ui_return, searchCalls, llmCalls, gate, gateCalls, queries_done,
                   failures>>
    /\ UNCHANGED notQueryVars

\* the caller takes the result: app.py lines 23-35, evaluate.py lines 59-61
Return ==
    /\ pc = "Done"
    /\ pc' = "Idle"
    /\ ui_return' = IF caller = "ui" THEN UiResponse(result) ELSE ui_return
    /\ queries_done' = queries_done + 1
    /\ failures' = IF raised # "none" THEN failures + 1 ELSE failures
    /\ UNCHANGED <<vectorstore, embeddings_model, llm, qa_chain, caller, user_query,
                   retrieved_docs_with_scores, top_doc, top_score, minimal_prompt, answer,
                   result, searchCalls, llmCalls, raised, gate, gateCalls>>
    /\ UNCHANGED notQueryVars

Next ==
    \/ \E q \in Questions : GetAiResponse(q)
    \/ \E q \in Questions : RunEvaluationRow(q)
    \/ \E resp \in SearchResponses : Retrieve(resp)
    \/ Gate
    \/ Generate
    \/ Extract
    \/ Return

Spec == Init /\ [][Next]_vars

\* Extract is enabled exactly in the states with pc = "Extracting", and it
\* changes pc: this is WF_vars(Extract) with its ENABLED written as that state
\* predicate
ExtractFair == []<>(pc # "Extracting") \/ []<><<Extract>>_vars

\* query runs in one thread from its call to its return: while every call of a
\* collaborator returns or raises, the step it is at is taken
SpecFair ==
    /\ Spec
    /\ WF_vars(\E resp \in SearchResponses : Retrieve(resp))
    /\ WF_vars(Gate)
    /\ WF_vars(Generate)
    /\ ExtractFair

(***************************************************************************)
(* The answer post-processing alone, on every short generated text         *)
(***************************************************************************)
Alphabet == {"a", " ", "\n", "Question:", "Q:", "User:"}

\* the texts of at most n tokens
Texts(n) == UNION { [1..k -> Alphabet] : k \in 0..n }

\* the prompts query can render
Prompts == { Format(PROMPT_TEMPLATE, d.page_content, q) : d \in Docs, q \in Questions }

\* ans with its text replaced by t
WithText(ans, t) ==
    IF ans.shape = "str" THEN StrAnswer(t)
    ELSE ListAnswer(<<[ans.items[1] EXCEPT !.text = t]>>)

CleanInit ==
    /\ QueryInit
    /\ IndexOff
    /\ ThreadsOff
    /\ ChunksOff
    /\ clean_pc = "raw"
    /\ clean_prompt \in Prompts
    /\ clean_answer \in UNION { TextAnswers(clean_prompt, t) : t \in Texts(MaxSuffixLen) }
    /\ clean_once = <<>>
    /\ clean_twice = <<>>

\* lines 135-147 on the model's return value
CleanOnce ==
    /\ clean_pc = "raw"
    /\ clean_once' = Clean(clean_answer, clean_prompt).text
    /\ clean_pc' = "once"
    /\ UNCHANGED <<clean_prompt, clean_answer, clean_twice>>
    /\ UNCHANGED notCleanVars

\* lines 135-147 on their own output, returned in the same shape
CleanTwice ==
    /\ clean_pc = "once"
    /\ clean_twice' = Clean(WithText(clean_answer, clean_once), clean_prompt).text
    /\ clean_pc' = "twice"
    /\ UNCHANGED <<clean_prompt, clean_answer, clean_once>>
    /\ UNCHANGED notCleanVars

CleanNext == CleanOnce \/ CleanTwice

SpecClean == CleanInit /\ [][CleanNext]_vars

(***************************************************************************)
(* Properties of query                                                     *)
(***************************************************************************)
\* the search of the query in flight has returned
SearchReturned == searchCalls = 1 /\ raised # "search"

\* the first entry of a search result that has one
TopEntry == retrieved_docs_with_scores[1]

HasTopEntry == SearchReturned /\ retrieved_docs_with_scores # <<>>

\* the distance is a finite number at most the threshold
FiniteWithinThreshold(score) ==
    score.kind = "real" /\ score.val <= RELEVANCE_THRESHOLD_L2

Refusal == QueryResult(<<TEMPLATE_REFUSAL>>, <<>>)

IsErrorResult(res) ==
    /\ Len(res.answer) = 2
    /\ res.answer[1] = ERROR_PREFIX
    /\ res.used_chunks = <<>>

\* C1: the prompt is rendered and the generation model invoked only for a top
\* score that is a finite distance <= RELEVANCE_THRESHOLD_L2.
C1_GroundingInvariant ==
    (llmCalls > 0 \/ minimal_prompt # <<>>) =>
        /\ HasTopEntry
        /\ TopEntry.is_pair
        /\ FiniteWithinThreshold(TopEntry.score)

\* C2: the gate admits the top score d if and only if d is a finite number and
\* d <= threshold; NaN and None are never admitted.
C2_GateAdmitsIffFiniteWithin ==
    (HasTopEntry /\ TopEntry.is_pair /\ gate # "none") =>
        ((gate = "admit") <=> FiniteWithinThreshold(TopEntry.score))

\* a top result whose distance is missing or not a real number
InvalidScore(entry) ==
    \/ ~entry.is_pair
    \/ entry.score.kind \in {"none", "str", "complex"}

\* C3: a non-numeric or missing distance on the top result makes query return
\* the refusal sentence with empty used_chunks, never an error result.
C3_InvalidScoreRefused ==
    (pc = "Done" /\ HasTopEntry /\ InvalidScore(TopEntry)) => result = Refusal

\* the top score is one the gate rejects: not a number, or above the threshold
RejectedScore(entry) ==
    /\ entry.is_pair
    /\ \/ entry.score.kind \in {"none", "str", "inf"}
       \/ entry.score.kind = "real" /\ entry.score.val > RELEVANCE_THRESHOLD_L2

GateDeclines ==
    /\ SearchReturned
    /\ pc # "Retrieving"
    /\ \/ retrieved_docs_with_scores = <<>>
       \/ RejectedScore(TopEntry)

\* C4: when the search returns no result or the gate rejects the top score,
\* query returns exactly (refusal sentence, []) and the generation model is
\* not invoked in that query.
C4_DeclinedWithoutGeneration ==
    GateDeclines =>
        /\ llmCalls = 0
        /\ minimal_prompt = <<>>
        /\ pc \in {"Gating", "Done", "Idle"}
        /\ pc \in {"Done", "Idle"} => result = Refusal

C4_Witness ==
    /\ pc = "Done"
    /\ HasTopEntry
    /\ GateDeclines
    /\ TopEntry.score = Real(91)
    /\ result = Refusal
    /\ llmCalls = 0

\* the question is empty or whitespace only
BlankQuestion(q) == \A i \in 1..Len(q) : q[i] \in {" ", "\n"}

\* a call is recorded
Called == caller # "none"

\* C5 as claimed: every call of query with a blank question returns the
\* please-enter result and performs no search and no generation.
C5_QueryShortCircuitsBlank ==
    (Called /\ BlankQuestion(user_query)) =>
        /\ pc = "Idle"
        /\ searchCalls = 0
        /\ llmCalls = 0

\* C5, amended: a call of get_ai_response with a blank question returns the
\* please-enter result without calling query, so without search or generation;
\* through get_ai_response only a question that is not blank reaches Retrieving.
C5_UiShortCircuitsBlank ==
    (caller = "ui" /\ BlankQuestion(user_query)) =>
        /\ pc = "Idle"
        /\ ui_return = UiReturn(<<PLEASE_ENTER>>, "")
        /\ result = NoResult
        /\ searchCalls = 0
        /\ llmCalls = 0

C5_Witness ==
    /\ caller = "ui"
    /\ user_query = <<" ", "\n">>
    /\ ui_return = UiReturn(<<PLEASE_ENTER>>, "")
    /\ searchCalls = 0
    /\ queries_done = 1

\* the result of the query in flight on a pipeline that has served no query:
\* a function of the question and of what the collaborators answered to it
FreshResult ==
    IF raised = "search" THEN ErrorResult("search failed")
    ELSE IF GateBranch(retrieved_docs_with_scores) # "admit"
         THEN GateResult(GateBranch(retrieved_docs_with_scores))
    ELSE IF raised = "llm" THEN ErrorResult("generation failed")
    ELSE LET prompt == Format(PROMPT_TEMPLATE, TopEntry.doc.page_content, user_query)
             cleaned == Clean(answer, prompt)
         IN  IF cleaned.raises THEN ErrorResult("object is not subscriptable")
             ELSE QueryResult(cleaned.text, <<TopEntry.doc>>)

\* C6: when the search or the generation raises, query returns an error-prefixed
\* answer with empty used_chunks; queries leave the pipeline as constructed, and
\* every query, whatever queries came before, returns what a fresh pipeline returns.
C6_ErrorsContained ==
    /\ vectorstore = "FAISS"
    /\ embeddings_model = "HuggingFaceEmbeddings"
    /\ llm = "HuggingFacePipeline"
    /\ qa_chain = None
    /\ raised \in {"search", "llm"} => pc \in {"Done", "Idle"} /\ IsErrorResult(result)
    /\ pc = "Done" => result = FreshResult
    /\ (pc = "Done" /\ raised = "none") => ~IsErrorResult(result)

C6_Witness ==
    /\ pc = "Done"
    /\ failures >= 1
    /\ raised = "none"
    /\ gate = "admit"
    /\ Len(result.used_chunks) = 1

\* C7: on every path where the gate declines (no result, score not a number,
\* score above the threshold) the answer is the very sentence the prompt
\* template tells the model to answer with.
C7_RefusalConsistency ==
    (pc = "Done" /\ gate \in {"reject_empty", "reject_not_number", "reject_threshold"}) =>
        /\ Len(result.answer) = 1
        /\ result.answer[1] = PROMPT_TEMPLATE[2]
        /\ Contains(PROMPT_TEMPLATE, result.answer)

C7_Witness ==
    /\ pc = "Done"
    /\ gate = "reject_not_number"
    /\ result.answer = <<PROMPT_TEMPLATE[2]>>

(***************************************************************************)
(* Properties of the answer post-processing                                *)
(***************************************************************************)
\* s begins with p
StartsWith(s, p) == Len(p) <= Len(s) /\ SubSeq(s, 1, Len(p)) = p

\* the text the generation model returned
RawText(ans) == IF ans.shape = "str" THEN ans.text ELSE ans.items[1].text

Cleaned == clean_pc \in {"once", "twice"}

\* C8: post-processing the post-processed answer changes nothing.
C8_CleanIdempotent ==
    clean_pc = "twice" => clean_twice = clean_once

\* C9: when the raw output is the prompt followed by a suffix, the answer does
\* not begin with the prompt; when the raw output does not begin with the
\* prompt, nothing is removed from it as an echo of the prompt.
C9_PrefixStripping ==
    Cleaned =>
        IF StartsWith(RawText(clean_answer), clean_prompt)
        THEN ~StartsWith(clean_once, clean_prompt)
        ELSE clean_once = CutAtStops(Strip(RawText(clean_answer)), 1)

\* some marker occurs in r at i
MarkerAt(r, i) == \E k \in 1..Len(Stops) : OccursAt(r, Stops[k], i)

\* the part of r before the earliest occurrence of any marker
BeforeEarliestMarker(r) ==
    IF \E i \in 1..Len(r) : MarkerAt(r, i)
    THEN SubSeq(r, 1, (CHOOSE i \in 1..Len(r) :
                         MarkerAt(r, i) /\ \A j \in 1..(i - 1) : ~MarkerAt(r, j)) - 1)
    ELSE r

\* the raw output once the echo of the prompt is removed
Remainder(ans, prompt) ==
    IF StartsWith(RawText(ans), prompt) THEN SliceFrom(RawText(ans), Len(prompt))
    ELSE RawText(ans)

\* the model's return value is a list whose first element carries generated_text
IsGeneratedText(ans) == ans.shape = "list" /\ ans.items[1].kind = "dict"

\* an echo of the prompt comes in generated_text, and only there
EchoInGeneratedText(ans, prompt) ==
    StartsWith(RawText(ans), prompt) <=> IsGeneratedText(ans)

\* C10: the answer is the part of the remainder before the earliest marker,
\* found in the untrimmed remainder, then trimmed; it contains no marker.
C10_Truncation ==
    (Cleaned /\ EchoInGeneratedText(clean_answer, clean_prompt)) =>
        /\ clean_once = Strip(BeforeEarliestMarker(Remainder(clean_answer, clean_prompt)))
        /\ \A i \in 1..Len(clean_once) : ~MarkerAt(clean_once, i)

(***************************************************************************)
(* Construction of the pipeline beside runs of the ingestion               *)
(***************************************************************************)
\* os.path.exists(FAISS_INDEX_PATH)
PathExists(d) == d.dir

\* the constructor raises: no pipeline is bound
ConstructionFails(why) ==
    /\ pc' = "Failed"
    /\ rag_pipeline' = "failed"
    /\ raised' = why

\* lines 51-53, with the raise left out: construction goes on without the index
IndexLoadErrorSwallowed ==
    /\ pc' = "InitLLM"
    /\ UNCHANGED <<rag_pipeline, raised>>

\* lines 51-53: the error of FAISS.load_local is printed and raised again
IndexLoadFails == ConstructionFails("index_load")

IndexInit ==
    /\ vectorstore = None
    /\ embeddings_model = None
    /\ llm = None
    /\ qa_chain = None
    /\ pc = "Constructing"
    /\ caller = "none"
    /\ user_query = <<>>
    /\ retrieved_docs_with_scores = <<>>
    /\ top_doc = NoDoc
    /\ top_score = NoScore
    /\ minimal_prompt = <<>>
    /\ answer = NoAnswer
    /\ result = NoResult
    /\ ui_return = NoUiReturn
    /\ searchCalls = 0
    /\ llmCalls = 0
    /\ raised = "none"
    /\ gate = "none"
    /\ gateCalls = 0
    /\ queries_done = 0
    /\ failures = 0
    /\ rag_pipeline = "unbound"
    /\ disk = NoDisk
    /\ ingest_pc = [at |-> "idle", run |-> 0]
    /\ index_seen = NoDisk
    /\ CleanOff
    /\ ThreadsOff
    /\ ChunksOff

\* what the steps of the constructor leave alone
ctorUnchanged ==
    UNCHANGED <<qa_chain, caller, user_query, retrieved_docs_with_scores, top_doc,
                top_score, minimal_prompt, answer, result, ui_return, searchCalls,
                llmCalls, gate, gateCalls, queries_done, failures, disk, ingest_pc,
                cleanVars, threadVars, chunkVars>>

\* lines 35-40: the embedding model is loaded, or the constructor raises
ConstructEmbeddings(ok) ==
    /\ pc = "Constructing"
    /\ IF ok
       THEN /\ embeddings_model' = "HuggingFaceEmbeddings"
            /\ pc' = "CheckIndex"
            /\ UNCHANGED <<rag_pipeline, raised>>
       ELSE /\ ConstructionFails("embeddings")
            /\ UNCHANGED embeddings_model
    /\ UNCHANGED <<vectorstore, llm, index_seen>>
    /\ ctorUnchanged

\* lines 43-47: FileNotFoundError when FAISS_INDEX_PATH does not exist
ConstructCheckIndex ==
    /\ pc = "CheckIndex"
    /\ index_seen' = Disk(disk.dir, 0, 0)
    /\ IF PathExists(disk)
       THEN /\ pc' = "LoadFaiss"
            /\ UNCHANGED <<rag_pipeline, raised>>
       ELSE ConstructionFails("index_missing")
    /\ UNCHANGED <<vectorstore, embeddings_model, llm>>
    /\ ctorUnchanged

\* line 49, FAISS.load_local: index.faiss is read
ConstructLoadFaiss(ok) ==
    /\ pc = "LoadFaiss"
    /\ index_seen' = [index_seen EXCEPT !.faiss = disk.faiss]
    /\ IF ok /\ disk.faiss # 0
       THEN /\ pc' = "LoadPkl"
            /\ UNCHANGED <<rag_pipeline, raised>>
       ELSE IndexLoadFails
    /\ UNCHANGED <<vectorstore, embeddings_model, llm>>
    /\ ctorUnchanged

\* line 49, FAISS.load_local: index.pkl is read
ConstructLoadPkl(ok) ==
    /\ pc = "LoadPkl"
    /\ index_seen' = [index_seen EXCEPT !.pkl = disk.pkl]
    /\ IF ok /\ disk.pkl # 0
       THEN /\ vectorstore' = "FAISS"
            /\ pc' = "InitLLM"
            /\ UNCHANGED <<rag_pipeline, raised>>
       ELSE /\ IndexLoadFails
            /\ UNCHANGED vectorstore
    /\ UNCHANGED <<embeddings_model, llm>>
    /\ ctorUnchanged

\* lines 56-75, and app.py line 12: the LLM is set up and the pipeline bound,
\* or the constructor raises
ConstructLLM(ok) ==
    /\ pc = "InitLLM"
    /\ IF ok
       THEN /\ llm' = "HuggingFacePipeline"
            /\ pc' = "Idle"
            /\ rag_pipeline' = "bound"
            /\ UNCHANGED raised
       ELSE /\ ConstructionFails("llm")
            /\ UNCHANGED llm
    /\ UNCHANGED <<vectorstore, embeddings_model, index_seen>>
    /\ ctorUnchanged

\* what the steps of the ingestion leave alone
ingestUnchanged == UNCHANGED <<queryVars, rag_pipeline, index_seen, cleanVars, threadVars,
                               chunkVars>>

\* ingest_data.main line 146: os.makedirs(FAISS_INDEX_PATH, exist_ok=True)
IngestMakedirs ==
    /\ ingest_pc.at = "idle"
    /\ ingest_pc.run < MaxIngestRuns
    /\ disk' = [disk EXCEPT !.dir = TRUE]
    /\ ingest_pc' = [at |-> "load_documents", run |-> ingest_pc.run + 1]
    /\ ingestUnchanged

\* lines 149-152: the documents are loaded; without documents main returns
IngestLoadDocuments(found) ==
    /\ ingest_pc.at = "load_documents"
    /\ ingest_pc' = [ingest_pc EXCEPT !.at = IF found THEN "build" ELSE "idle"]
    /\ UNCHANGED disk
    /\ ingestUnchanged

\* lines 155-158 and 116: chunks, embedding model and the index in memory
IngestBuild ==
    /\ ingest_pc.at = "build"
    /\ ingest_pc' = [ingest_pc EXCEPT !.at = "save_faiss"]
    /\ UNCHANGED disk
    /\ ingestUnchanged

\* line 119, db.save_local: index.faiss is written
IngestSaveFaiss ==
    /\ ingest_pc.at = "save_faiss"
    /\ disk' = [disk EXCEPT !.faiss = ingest_pc.run]
    /\ ingest_pc' = [ingest_pc EXCEPT !.at = "save_pkl"]
    /\ ingestUnchanged

\* line 119, db.save_local: index.pkl is written
IngestSavePkl ==
    /\ ingest_pc.at = "save_pkl"
    /\ disk' = [disk EXCEPT !.pkl = ingest_pc.run]
    /\ ingest_pc' = [ingest_pc EXCEPT !.at = "idle"]
    /\ ingestUnchanged

IndexNext ==
    \/ \E ok \in BOOLEAN : ConstructEmbeddings(ok)
    \/ ConstructCheckIndex
    \/ \E ok \in BOOLEAN : ConstructLoadFaiss(ok)
    \/ \E ok \in BOOLEAN : ConstructLoadPkl(ok)
    \/ \E ok \in BOOLEAN : ConstructLLM(ok)
    \/ IngestMakedirs
    \/ \E found \in BOOLEAN : IngestLoadDocuments(found)
    \/ IngestBuild
    \/ IngestSaveFaiss
    \/ IngestSavePkl
    \/ Next

SpecIndex == IndexInit /\ [][IndexNext]_vars

(***************************************************************************)
(* Properties of the construction                                          *)
(***************************************************************************)
\* the constructor has not yet finished with the index
BeforeIndexLoaded == pc \in {"Constructing", "CheckIndex", "LoadFaiss", "LoadPkl"}

\* the constructor read both files of an index
IndexRead(seen) == seen.dir /\ seen.faiss >= 1 /\ seen.pkl >= 1

\* C11: a missing or unloadable index makes the construction raise; a pipeline
\* is bound only with embedding model, vector store and LLM all set, the vector
\* store loaded from the files of the index; only a bound pipeline serves queries.
C11_MissingIndexFatal ==
    /\ rag_pipeline = "bound" =>
          /\ vectorstore = "FAISS"
          /\ embeddings_model # None
          /\ llm # None
          /\ IndexRead(index_seen)
    /\ vectorstore # None => IndexRead(index_seen)
    /\ (~BeforeIndexLoaded /\ ~IndexRead(index_seen)) =>
          /\ pc = "Failed"
          /\ rag_pipeline = "failed"
    /\ raised \in {"index_missing", "index_load", "embeddings"} => pc = "Failed"
    /\ (caller # "none" \/ searchCalls > 0 \/ pc \in {"Retrieving", "Gating", "Generating",
                                                      "Extracting", "Done"}) =>
          rag_pipeline = "bound"

C11_Witness ==
    /\ pc = "Failed"
    /\ raised = "index_missing"
    /\ rag_pipeline = "failed"
    /\ embeddings_model # None
    /\ vectorstore = None

\* C16: the constructor either finds no index at FAISS_INDEX_PATH or reads the
\* complete index of one finished ingestion run; it never finds a location that
\* exists and holds no index or only a part of the files.
C16_NoPartialIndexObserved ==
    (~BeforeIndexLoaded /\ index_seen.dir) =>
        /\ index_seen.faiss >= 1
        /\ index_seen.faiss = index_seen.pkl

(***************************************************************************)
(* Properties of the order of the steps of query                           *)
(***************************************************************************)
\* the gate's evaluation is on the first entry of the search result
GateOnTopEntry ==
    (gateCalls = 1 /\ gate \notin {"reject_empty", "raise_unpack"}) =>
        /\ retrieved_docs_with_scores # <<>>
        /\ top_doc = retrieved_docs_with_scores[1].doc
        /\ top_score = retrieved_docs_with_scores[1].score

C12_Counts ==
    /\ gateCalls <= 1
    /\ searchCalls <= 1
    /\ gateCalls = 1 => SearchReturned
    /\ (llmCalls > 0 \/ minimal_prompt # <<>>) => gateCalls = 1
    /\ pc \in {"Generating", "Extracting"} => gateCalls = 1
    /\ (pc = "Done" /\ SearchReturned) => gateCalls = 1
    /\ GateOnTopEntry

C12_Order ==
    /\ gateCalls' > gateCalls =>
          /\ searchCalls = 1 /\ searchCalls' = 1
          /\ llmCalls' = 0
          /\ minimal_prompt' = <<>>
    /\ (llmCalls' > llmCalls \/ (minimal_prompt' # minimal_prompt /\ minimal_prompt' # <<>>)) =>
          /\ gateCalls = 1 /\ gateCalls' = 1
          /\ searchCalls = 1

\* C12: in one query the gate is evaluated exactly once, on the first entry of
\* the search result, after the one top-1 search and before the prompt is
\* rendered and the generation model invoked.
C12_GateOnceBeforeGeneration == []C12_Counts /\ [][C12_Order]_vars

C12_Witness ==
    /\ pc = "Extracting"
    /\ searchCalls = 1
    /\ gateCalls = 1
    /\ llmCalls = 1
    /\ top_doc = retrieved_docs_with_scores[1].doc

\* the states of the orchestrator in their order
Rank(p) ==
    CASE p = "Idle" -> 0
      [] p = "Retrieving" -> 1
      [] p = "Gating" -> 2
      [] p = "Generating" -> 3
      [] p = "Extracting" -> 4
      [] p = "Done" -> 5
      [] OTHER -> -1

InFlight == pc \in {"Retrieving", "Gating", "Generating", "Extracting"}

C13_Counts ==
    /\ searchCalls <= 1
    /\ llmCalls <= 1
    /\ raised = "llm" => (llmCalls = 1 /\ pc \in {"Done", "Idle"})

C13_Forward ==
    \/ Rank(pc') > Rank(pc)
    \/ pc = "Done" /\ pc' = "Idle"
    \/ pc = "Idle" /\ pc' = "Idle"

\* C13: the orchestrator only moves forward, Idle, Retrieving, Gating, then
\* Generating and Extracting or the refusal, then Done; search and generation
\* model are invoked at most once per query, a failed generation is reported
\* and not tried again, and every query reaches Done.
C13_NoRetries ==
    /\ []C13_Counts
    /\ [][C13_Forward]_vars
    /\ (InFlight ~> pc = "Done")

C13_Witness ==
    /\ pc = "Done"
    /\ raised = "llm"
    /\ llmCalls = 1
    /\ searchCalls = 1

\* C14: used_chunks has no or one element; it has one exactly when the gate
\* admitted the top result and generation and extraction raised nothing, and
\* then it is the top-ranked chunk, the one whose content is in the prompt.
C14_UsedChunks ==
    pc = "Done" =>
        /\ Len(result.used_chunks) <= 1
        /\ (Len(result.used_chunks) = 1) <=> (gate = "admit" /\ raised = "none")
        /\ Len(result.used_chunks) = 1 =>
              /\ result.used_chunks[1] = retrieved_docs_with_scores[1].doc
              /\ minimal_prompt =
                    Format(PROMPT_TEMPLATE, result.used_chunks[1].page_content, user_query)

C14_Witness ==
    /\ pc = "Done"
    /\ gate = "admit"
    /\ raised = "none"
    /\ result.used_chunks = <<retrieved_docs_with_scores[1].doc>>
    /\ retrieved_docs_with_scores[1].doc.chunk_id = 1

(***************************************************************************)
(* Concurrent calls of query on the one pipeline of app.py                 *)
(***************************************************************************)
\* calls of query in flight at once, each in its own thread
NumThreads == 2

Threads == 1..NumThreads

NoSearchResponse == [raises |-> FALSE, results |-> <<>>]
NoLlmResponse == [raises |-> FALSE, value |-> NoAnswer]

\* the frame of a call: the parameter and the locals of query, and what the
\* collaborators answered to this call
Frame ==
    [pc |-> "Idle", user_query |-> <<>>, retrieved_docs_with_scores |-> <<>>,
     top_doc |-> NoDoc, minimal_prompt |-> <<>>, answer |-> NoAnswer, result |-> NoResult,
     search_response |-> NoSearchResponse, llm_response |-> NoLlmResponse]

ThreadQuestions == { <<>>, <<"a">> }

ThreadSearchResponses ==
    { r \in SearchResponses :
        \/ r.raises
        \/ r.results = <<>>
        \/ r.results[1].is_pair /\ r.results[1].score \in {Real(12), Real(91)} }

ThreadLlmResponses(prompt) ==
    { r \in LlmResponses(prompt) :
        \/ r.raises
        \/ r.value \in { StrAnswer(<<" ", "a">>),
                         ListAnswer(<<DictWithText(prompt \o <<" ", "a">>)>>) } }

\* the prompt kept in one place for all calls: the last one in thread order
PromptReadShared(th, t) ==
    LET rendered == { u \in DOMAIN th : th[u].minimal_prompt # <<>> } IN
    th[CHOOSE u \in rendered : \A v \in rendered : v <= u].minimal_prompt

\* line 139 reads the local minimal_prompt of its own call
PromptRead(th, t) == th[t].minimal_prompt

ThreadsInit ==
    /\ QueryInit
    /\ CleanOff
    /\ IndexOff
    /\ ChunksOff
    /\ threads = [t \in Threads |-> Frame]

\* query assigns no attribute of self and nothing outside its frame
threadUnchanged == UNCHANGED <<queryVars, cleanVars, indexVars, chunkVars>>

\* lines 103-112 in thread t
ThreadEnter(t, q) ==
    /\ threads[t].pc = "Idle"
    /\ threads' = [threads EXCEPT ![t] =
          IF ~(Truthy(vectorstore) /\ Truthy(llm))
          THEN [@ EXCEPT !.user_query = q, !.pc = "Done",
                         !.result = QueryResult(<<NOT_INITIALIZED>>, <<>>)]
          ELSE [@ EXCEPT !.user_query = q, !.pc = "Retrieving"]]
    /\ threadUnchanged

\* line 115 in thread t
ThreadRetrieve(t, resp) ==
    /\ threads[t].pc = "Retrieving"
    /\ threads' = [threads EXCEPT ![t] =
          IF resp.raises
          THEN [@ EXCEPT !.search_response = resp, !.pc = "Done",
                         !.result = ErrorResult("search failed")]
          ELSE [@ EXCEPT !.search_response = resp, !.pc = "Gating",
                         !.retrieved_docs_with_scores = resp.results]]
    /\ threadUnchanged

\* lines 116-128 in thread t
ThreadGate(t) ==
    /\ threads[t].pc = "Gating"
    /\ LET branch == GateBranch(threads[t].retrieved_docs_with_scores) IN
       threads' = [threads EXCEPT ![t] =
          IF branch = "admit"
          THEN [@ EXCEPT !.top_doc = threads[t].retrieved_docs_with_scores[1].doc,
                         !.pc = "Generating"]
          ELSE [@ EXCEPT !.result = GateResult(branch), !.pc = "Done"]]
    /\ threadUnchanged

\* lines 130-133 in thread t
ThreadGenerate(t) ==
    /\ threads[t].pc = "Generating"
    /\ LET prompt == Format(PROMPT_TEMPLATE, threads[t].top_doc.page_content,
                            threads[t].user_query) IN
       \E resp \in ThreadLlmResponses(prompt) :
          threads' = [threads EXCEPT ![t] =
             IF resp.raises
             THEN [@ EXCEPT !.minimal_prompt = prompt, !.llm_response = resp,
                            !.pc = "Done", !.result = ErrorResult("generation failed")]
             ELSE [@ EXCEPT !.minimal_prompt = prompt, !.llm_response = resp,
                            !.pc = "Extracting", !.answer = resp.value]]
    /\ threadUnchanged

\* lines 134-149 in thread t
ThreadExtract(t) ==
    /\ threads[t].pc = "Extracting"
    /\ LET cleaned == Clean(threads[t].answer, PromptRead(threads, t)) IN
       threads' = [threads EXCEPT ![t] =
          IF cleaned.raises
          THEN [@ EXCEPT !.pc = "Done",
                         !.result = ErrorResult("object is not subscriptable")]
          ELSE [@ EXCEPT !.pc = "Done",
                         !.result = QueryResult(cleaned.text, <<threads[t].top_doc>>)]]
    /\ threadUnchanged

ThreadsNext ==
    \E t \in Threads :
        \/ \E q \in ThreadQuestions : ThreadEnter(t, q)
        \/ \E resp \in ThreadSearchResponses : ThreadRetrieve(t, resp)
        \/ ThreadGate(t)
        \/ ThreadGenerate(t)
        \/ ThreadExtract(t)

SpecThreads == ThreadsInit /\ [][ThreadsNext]_vars

\* what one call alone returns for a question and the collaborators' responses
ResultAlone(q, search_response, llm_response) ==
    IF search_response.raises THEN ErrorResult("search failed")
    ELSE LET branch == GateBranch(search_response.results) IN
         IF branch # "admit" THEN GateResult(branch)
         ELSE IF llm_response.raises THEN ErrorResult("generation failed")
         ELSE LET doc == search_response.results[1].doc
                  cleaned == Clean(llm_response.value,
                                   Format(PROMPT_TEMPLATE, doc.page_content, q))
              IN IF cleaned.raises THEN ErrorResult("object is not subscriptable")
                 ELSE QueryResult(cleaned.text, <<doc>>)

\* C15: query leaves vectorstore, embeddings_model, llm and qa_chain as they
\* are, and under every interleaving of concurrent calls the result of a call
\* is the one its own question and the collaborators' responses to it give.
C15_CallsIndependent ==
    /\ PipelineInit
    /\ \A t \in Threads :
          threads[t].pc = "Done" =>
              threads[t].result = ResultAlone(threads[t].user_query,
                                              threads[t].search_response,
                                              threads[t].llm_response)

C15_Witness ==
    /\ threads[1].pc = "Done"
    /\ threads[1].result.used_chunks # <<>>
    /\ threads[1].answer.shape = "list"
    /\ threads[2].pc = "Extracting"
    /\ Len(threads[2].minimal_prompt) > Len(threads[1].minimal_prompt)

(***************************************************************************)
(* ingest_data.split_documents_into_chunks                                 *)
(***************************************************************************)
\* documents a loader run returns, and chunks the splitter makes of one document
MaxDocs == 2
MaxPieces == 2

\* a loaded document: the number of chunks its text splits into, and the
\* chunk_id its loader put in the metadata, if any
LoadedDocuments ==
    { [pieces |-> n, has_chunk_id |-> h.has, chunk_id |-> h.id] :
        n \in 0..MaxPieces,
        h \in { [has |-> FALSE, id |-> 0], [has |-> TRUE, id |-> 0], [has |-> TRUE, id |-> 7] } }

DocumentLists == UNION { [1..n -> LoadedDocuments] : n \in 0..MaxDocs }

\* the chunks of document d, each with a copy of the document's metadata
ChunksOf(doc, d) ==
    [k \in 1..doc.pieces |->
        [doc |-> d, piece |-> k, has_chunk_id |-> doc.has_chunk_id, chunk_id |-> doc.chunk_id]]

\* line 75: text_splitter.split_documents(documents), from document d on
RECURSIVE SplitDocuments(_, _)
SplitDocuments(docs, d) ==
    IF d > Len(docs) THEN <<>>
    ELSE ChunksOf(docs[d], d) \o SplitDocuments(docs, d + 1)

\* the chunk_id is set only where the loader set none
AssignChunkIdIfAbsent(chunk, i) ==
    IF chunk.has_chunk_id THEN chunk
    ELSE [chunk EXCEPT !.has_chunk_id = TRUE, !.chunk_id = i]

\* line 81: chunk.metadata['chunk_id'] = i
AssignChunkId(chunk, i) == [chunk EXCEPT !.has_chunk_id = TRUE, !.chunk_id = i]

\* lines 75-85: enumerate counts from 0
SplitDocumentsIntoChunks(docs) ==
    LET split == SplitDocuments(docs, 1) IN
    [i \in 1..Len(split) |-> AssignChunkId(split[i], i - 1)]

ChunksInit ==
    /\ QueryInit
    /\ CleanOff
    /\ IndexOff
    /\ ThreadsOff
    /\ documents \in DocumentLists
    /\ chunks = <<>>
    /\ chunk_pc = "loaded"

chunkUnchanged == UNCHANGED <<queryVars, cleanVars, indexVars, threadVars>>

\* a run of split_documents_into_chunks on the loaded documents
ChunkDocuments ==
    /\ chunk_pc \in {"loaded", "reloaded"}
    /\ chunks' = SplitDocumentsIntoChunks(documents)
    /\ chunk_pc' = IF chunk_pc = "loaded" THEN "split" ELSE "resplit"
    /\ UNCHANGED documents
    /\ chunkUnchanged

\* a later run of main loads the documents anew; its chunk list starts empty
ReIngest(docs) ==
    /\ chunk_pc \in {"split", "resplit"}
    /\ documents' = docs
    /\ chunks' = <<>>
    /\ chunk_pc' = "reloaded"
    /\ chunkUnchanged

ChunksNext ==
    \/ ChunkDocuments
    \/ \E docs \in DocumentLists : ReIngest(docs)

SpecChunks == ChunksInit /\ [][ChunksNext]_vars

RECURSIVE TotalPieces(_)
TotalPieces(docs) ==
    IF docs = <<>> THEN 0 ELSE Head(docs).pieces + TotalPieces(Tail(docs))

\* chunk i was created before chunk j
CreatedBefore(c1, c2) ==
    \/ c1.doc < c2.doc
    \/ c1.doc = c2.doc /\ c1.piece < c2.piece

====
